---- MODULE Spec2Model ----
(***************************************************************************)
(* The fetch-cache-classify pipeline of src/src/tools/transcript.ts: the   *)
(* two entry points getTranscriptHandler (error-flag convention) and       *)
(* getTranscript (throwing convention), run as concurrent invocations over *)
(* one shared result store and its usage counters.                         *)
(*                                                                         *)
(* A text is a sequence of tokens; the phrases the code matches with       *)
(* startsWith / includes are token sequences, so that 'No transcript' is a *)
(* proper prefix of 'No transcript available' as it is in the source.      *)
(***************************************************************************)
EXTENDS Naturals, Sequences, FiniteSets

\* ------------------------------------------------------------------ bounds

\* Number of requests the environment issues in one behaviour.
MaxRequests == 2

\* Number of requests issued while the settling of the counters is followed.
MaxTracked == 1

\* Invocation slots: at most this many requests are in flight together.
Invocations == {1, 2}

\* ------------------------------------------------------------------- texts

StartsWith(s, p) ==
    /\ Len(p) <= Len(s)
    /\ SubSeq(s, 1, Len(p)) = p

Includes(s, p) ==
    /\ Len(p) <= Len(s)
    /\ \E i \in 0..(Len(s) - Len(p)) : SubSeq(s, i + 1, i + Len(p)) = p

\* JavaScript truthiness of a string: only the empty string is falsy.
Truthy(s) == s # << >>

ErrorMarker == << "Error:" >>
NoTranscript == << "No transcript" >>
NoTranscriptAvailable == << "No transcript", " available" >>
ServiceTemporarilyBusy == << "Service temporarily busy" >>
VideoNotFound == << "Video not found" >>
VideoNotFoundOrPrivate == << "Video not found", " or private" >>
TranscriptsAreDisabled == << "Transcripts are disabled" >>

\* getTranscriptHandler's reading of a cached string.
isLikelyError(cachedData) ==
    \/ StartsWith(cachedData, ErrorMarker)
    \/ StartsWith(cachedData, NoTranscript)
    \/ StartsWith(cachedData, ServiceTemporarilyBusy)
    \/ StartsWith(cachedData, VideoNotFound)

\* getTranscript's reading of a cached string.
isCachedError(cachedData) ==
    \/ StartsWith(cachedData, ErrorMarker)
    \/ Includes(cachedData, NoTranscriptAvailable)
    \/ Includes(cachedData, ServiceTemporarilyBusy)
    \/ Includes(cachedData, VideoNotFoundOrPrivate)
    \/ Includes(cachedData, TranscriptsAreDisabled)

\* --------------------------------------------------------- URL identifier

\* A URL is its surface form and the identifier token it carries.
Urls ==
    { [form |-> "short", id |-> "abc123"],
      [form |-> "short", id |-> ""],
      [form |-> "other", id |-> "abc123"] }

isValidYouTubeUrl(u) == u.form \in {"short", "watch", "embed"}

normalizeYouTubeUrl(u) ==
    IF u.form \in {"short", "watch", "embed"}
    THEN [form |-> "watch", id |-> u.id]
    ELSE u

extractVideoId(u) == IF u.form = "watch" THEN u.id ELSE ""

\* The caller's language argument; Omitted takes the default.
Omitted == "<omitted>"
LanguageInputs == {Omitted, "es"}
DefaultLanguage(l) == IF l = Omitted THEN "en" ELSE l

Conventions == {"handler", "throwing"}

\* ------------------------------------------------------ fetch capability

Transcripts ==
    { << >>,
      << "Hello world." >>,
      << "Hello world.", "Service temporarily busy" >> }

\* The faults the fetch is given to raise: one whose classified message both
\* readers of the cache list, one that only getTranscript's reader lists, and
\* one without a category.
Faults ==
    { [name |-> "VideoUnavailable", message |-> << "raw: video unavailable" >>],
      [name |-> "TranscriptsDisabled", message |-> << "raw: transcript disabled" >>],
      [name |-> "Error", message |-> << "raw: network failure" >>] }

FetchOutcomes ==
    { [kind |-> "text", text |-> t] : t \in Transcripts }
        \cup { [kind |-> "fault", fault |-> f] : f \in Faults }

\* The error classifier: one fixed presentable message per category.
handleYouTubeErrors(error) ==
    CASE error.name = "VideoUnavailable" -> << "Video not found", " or private" >>
      [] error.name = "TranscriptsDisabled" ->
            << "Transcripts are disabled", " for this video" >>
      [] error.name = "NoTranscriptFound" ->
            << "No transcript", " available", " for this video" >>
      [] error.name = "TooManyRequests" ->
            << "Service temporarily busy", ", try again later" >>
      [] OTHER -> << "Error:", " Failed to fetch transcript" >>

\* The category label of the detailed failure entry.
errorName(error) ==
    IF error.name # "" /\ error.name # "Error" THEN error.name ELSE "FetchError"

\* ----------------------------------------------------------- result store

Keys == [id : {"abc123"}, lang : {"en", "es"}]
Absent == [kind |-> "absent"]

ReadFaultMessages ==
    { << "KV unavailable" >>, << "Error:", " KV unavailable" >> }

\* What a lookup of key k may give back: the stored string, nothing, or a fault.
getCachedTranscript(kv, k) ==
    { IF kv[k] = Absent
      THEN Absent
      ELSE [kind |-> "value", text |-> kv[k].text, isError |-> kv[k].isError] }
        \cup { [kind |-> "fault", message |-> m] : m \in ReadFaultMessages }

\* The store after a successful write of (k, text, isError).
setCachedTranscript(kv, k, text, isError) ==
    [kv EXCEPT ![k] = [kind |-> "entry", text |-> text, isError |-> isError]]

\* The lookup as the environment allows it: with no store binding it finds
\* nothing, or fails on the missing binding with a message that carries no marker.
Lookup(present, kv, k) ==
    IF present
    THEN getCachedTranscript(kv, k)
    ELSE { r \in getCachedTranscript(kv, k) :
             r.kind = "fault" => ~StartsWith(r.message, << "Error:" >>) }

\* How a cache write may settle: with no store binding it cannot take effect.
WriteOutcomes(present) == IF present THEN BOOLEAN ELSE {FALSE}

TaskKinds == {"daily", "video", "analytics"}

\* The bindings the environment object may carry. getTranscriptHandler checks
\* TRANSCRIPT_KV before its counters; getTranscript checks TRANSCRIPT_CACHE
\* before its counters, its failure entry and its cache write.
Bindings == {"TRANSCRIPT_KV", "TRANSCRIPT_CACHE"}
Environments == SUBSET Bindings
StoreBinding(c) == IF c = "handler" THEN "TRANSCRIPT_KV" ELSE "TRANSCRIPT_CACHE"

\* A function's store is there when the environment carries the binding that
\* function checks.
StorePresent(c, e) == StoreBinding(c) \in e

\* ------------------------------------------------------------------- state

VARIABLES
    env,            \* the bindings the environment object carries
    cache,          \* the result store: key -> Absent or entry
    pending,        \* detached counter operations not yet settled, per kind
    counted,        \* counter operations that took effect, per kind
    faulted,        \* counter operations that failed (logged only), per kind
    requests,       \* requests issued so far
    conv,           \* which revision of the entry point is deployed
    pc,             \* per invocation: idle, lookup, fetch, write, done
    url,
    language,
    videoId,
    cachedData,     \* what the lookup gave back
    fetched,        \* what the fetch gave back
    transcriptText,
    fetchError,
    outputs,        \* terminal outputs produced (returned or thrown)
    log             \* collaborator calls started and completed, in order

storePresent == StorePresent(conv, env)

vars ==
    << env, conv, cache, pending, counted, faulted, requests, pc, url,
       language, videoId, cachedData, fetched, transcriptText, fetchError,
       outputs, log >>

stores == << cache, pending, counted, faulted >>
locals == << url, language, videoId, cachedData, fetched, transcriptText, fetchError >>

None == [kind |-> "none"]
NoUrl == [form |-> "", id |-> ""]

Key(p) == [id |-> videoId[p], lang |-> language[p]]

Returned(t) == [isError |-> FALSE, text |-> t]
Failed(t) == [isError |-> TRUE, text |-> t]

InvalidUrlMessage(c) ==
    IF c = "handler"
    THEN << "Error:", " Invalid YouTube URL provided." >>
    ELSE << "Invalid YouTube URL provided." >>

NoVideoIdMessage(c) ==
    IF c = "handler"
    THEN << "Error:", " Could not extract video ID from the URL." >>
    ELSE << "Could not extract video ID from the URL." >>

Init ==
    /\ env \in Environments
    /\ conv \in Conventions
    /\ cache = [k \in Keys |-> Absent]
    /\ pending = [t \in TaskKinds |-> 0]
    /\ counted = [t \in TaskKinds |-> 0]
    /\ faulted = [t \in TaskKinds |-> 0]
    /\ requests = 0
    /\ pc = [p \in Invocations |-> "idle"]
    /\ url = [p \in Invocations |-> NoUrl]
    /\ language = [p \in Invocations |-> "en"]
    /\ videoId = [p \in Invocations |-> ""]
    /\ cachedData = [p \in Invocations |-> None]
    /\ fetched = [p \in Invocations |-> None]
    /\ transcriptText = [p \in Invocations |-> << >>]
    /\ fetchError = [p \in Invocations |-> FALSE]
    /\ outputs = [p \in Invocations |-> << >>]
    /\ log = [p \in Invocations |-> << >>]

\* ----------------------------------------------------------------- events

GetStart(k) == [op |-> "get.start", key |-> k]
GetEnd(k) == [op |-> "get.end", key |-> k]
FetchStart(k) == [op |-> "fetch.start", key |-> k]
FetchEnd(k) == [op |-> "fetch.end", key |-> k]
SetStart(k, t, e) == [op |-> "set.start", key |-> k, text |-> t, isError |-> e]
SetEnd(k) == [op |-> "set.end", key |-> k]
SetEndWith(k, ok) == [op |-> "set.end", key |-> k, ok |-> ok]
TrackDaily == [op |-> "trackDailyRequests"]
IncrementVideo(id) == [op |-> "incrementVideoRequestCount", id |-> id]
LogAnalytics(id, ok, label) ==
    [op |-> "logAnalyticsError", id |-> id, success |-> ok, label |-> label]

\* The counter operation behind each kind of detached task.
CounterOp(t) ==
    CASE t = "daily" -> "trackDailyRequests"
      [] t = "video" -> "incrementVideoRequestCount"
      [] OTHER -> "logAnalyticsError"

\* How many detached operations of kind t the calls start.
Spawned(calls, t) == Cardinality({i \in DOMAIN calls : calls[i].op = CounterOp(t)})

\* -------------------------------------------------- the pipeline's decisions

Proceed == [next |-> "fetch"]
Finish(o) == [next |-> "done", output |-> o]

\* Whether the request's URL is refused, and with which message.
Validate(c, u) ==
    IF ~isValidYouTubeUrl(u)
    THEN [ok |-> FALSE, message |-> InvalidUrlMessage(c), id |-> ""]
    ELSE IF extractVideoId(normalizeYouTubeUrl(u)) = ""
    THEN [ok |-> FALSE, message |-> NoVideoIdMessage(c), id |-> ""]
    ELSE [ok |-> TRUE, message |-> << >>, id |-> extractVideoId(normalizeYouTubeUrl(u))]

\* TrackUsage without the check for the binding.
TrackUsageUnguarded(c, e, id) == << TrackDaily, IncrementVideo(id) >>

\* The counter operations started before the lookup.
TrackUsage(c, e, id) ==
    IF StoreBinding(c) \in e THEN << TrackDaily, IncrementVideo(id) >> ELSE << >>

\* Begin with the usage counters started ahead of validation.
BeginTracksInvalid(c, e, u, l) ==
    LET v == Validate(c, u)
        lang == DefaultLanguage(l)
    IN  IF v.ok
        THEN [next |-> "lookup", id |-> v.id, lang |-> lang,
              calls |-> TrackUsage(c, e, v.id)
                          \o << GetStart([id |-> v.id, lang |-> lang]) >>,
              output |-> << >>]
        ELSE [next |-> "done", id |-> v.id, lang |-> lang,
              calls |-> TrackUsage(c, e, v.id),
              output |-> << Failed(v.message) >>]

\* Begin with the lookup left unawaited: the fetch starts at once.
BeginFetchesUnawaited(c, e, u, l) ==
    LET v == Validate(c, u)
        lang == DefaultLanguage(l)
        k == [id |-> v.id, lang |-> lang]
    IN  IF v.ok
        THEN [next |-> "fetch", id |-> v.id, lang |-> lang,
              calls |-> TrackUsage(c, e, v.id) \o << GetStart(k), FetchStart(k) >>,
              output |-> << >>]
        ELSE [next |-> "done", id |-> v.id, lang |-> lang,
              calls |-> << >>,
              output |-> << Failed(v.message) >>]

\* From the call to the first await: validation, identifier extraction, the
\* detached usage counters and the start of the lookup.
Begin(c, e, u, l) ==
    LET v == Validate(c, u)
        lang == DefaultLanguage(l)
    IN  IF v.ok
        THEN [next |-> "lookup", id |-> v.id, lang |-> lang,
              calls |-> TrackUsage(c, e, v.id)
                          \o << GetStart([id |-> v.id, lang |-> lang]) >>,
              output |-> << >>]
        ELSE [next |-> "done", id |-> v.id, lang |-> lang,
              calls |-> << >>,
              output |-> << Failed(v.message) >>]

\* AfterLookupHandler without the return on a success hit: it falls through.
AfterLookupHandlerFallsThrough(r) ==
    IF r.kind = "value" /\ Truthy(r.text) /\ isLikelyError(r.text)
    THEN Finish([isError |-> TRUE, text |-> r.text])
    ELSE Proceed

\* getTranscriptHandler after the lookup gave r.
AfterLookupHandler(r) ==
    IF r.kind = "value" /\ Truthy(r.text)
    THEN Finish([isError |-> isLikelyError(r.text), text |-> r.text])
    ELSE Proceed

\* The catch clause around getTranscript's lookup: it receives the store's
\* fault and also the error thrown for a cached error string.
CatchCacheError(message) ==
    IF StartsWith(message, ErrorMarker) THEN Finish(Failed(message)) ELSE Proceed

\* getTranscript after the lookup gave r.
AfterLookupThrowing(r) ==
    IF r.kind = "fault"
    THEN CatchCacheError(r.message)
    ELSE IF r.kind = "value" /\ Truthy(r.text)
    THEN IF isCachedError(r.text)
         THEN CatchCacheError(r.text)
         ELSE Finish(Returned(r.text))
    ELSE Proceed

AfterLookup(c, r) ==
    IF c = "handler" THEN AfterLookupHandler(r) ELSE AfterLookupThrowing(r)

\* Classified with the raw fault's message kept instead of the classifier's.
ClassifiedRaw(o) ==
    IF o.kind = "text"
    THEN [text |-> o.text, isError |-> FALSE]
    ELSE [text |-> o.fault.message, isError |-> TRUE]

\* The text and error flag the pipeline holds after the fetch outcome o.
Classified(o) ==
    IF o.kind = "text"
    THEN [text |-> o.text, isError |-> FALSE]
    ELSE [text |-> handleYouTubeErrors(o.fault), isError |-> TRUE]

\* The detailed failure entry logged after the fetch outcome o.
LogFailure(c, e, id, o) ==
    IF c = "throwing" /\ o.kind = "fault" /\ "TRANSCRIPT_CACHE" \in e
    THEN << LogAnalytics(id, FALSE, errorName(o.fault)) >>
    ELSE << >>

\* Whether the pipeline issues the cache write.
WritesCache(c, e) == c = "handler" \/ "TRANSCRIPT_CACHE" \in e

\* AfterFetch that looks at the store again and prefers what another request
\* has stored meanwhile over its own fetch.
AfterFetchPrefersStored(c, e, k, o) ==
    LET r == IF cache[k] # Absent
             THEN [text |-> cache[k].text, isError |-> cache[k].isError]
             ELSE Classified(o)
        entry == LogFailure(c, e, k.id, o)
    IN  IF WritesCache(c, e)
        THEN [next |-> "write", text |-> r.text, isError |-> r.isError,
              calls |-> << FetchEnd(k) >> \o entry
                          \o << SetStart(k, r.text, r.isError) >>,
              output |-> << >>]
        ELSE [next |-> "done", text |-> r.text, isError |-> r.isError,
              calls |-> << FetchEnd(k) >> \o entry,
              output |-> << [isError |-> r.isError, text |-> r.text] >>]

\* AfterFetch that fetches again after a fault.
AfterFetchRetries(c, e, k, o) ==
    LET r == Classified(o)
        entry == LogFailure(c, e, k.id, o)
    IN  IF o.kind = "fault"
        THEN [next |-> "fetch", text |-> r.text, isError |-> r.isError,
              calls |-> << FetchEnd(k), FetchStart(k) >>,
              output |-> << >>]
        ELSE IF WritesCache(c, e)
        THEN [next |-> "write", text |-> r.text, isError |-> r.isError,
              calls |-> << FetchEnd(k) >> \o entry
                          \o << SetStart(k, r.text, r.isError) >>,
              output |-> << >>]
        ELSE [next |-> "done", text |-> r.text, isError |-> r.isError,
              calls |-> << FetchEnd(k) >> \o entry,
              output |-> << [isError |-> r.isError, text |-> r.text] >>]

\* AfterFetch that passes no error marker to the cache write.
AfterFetchDropsFlag(c, e, k, o) ==
    LET r == Classified(o)
        entry == LogFailure(c, e, k.id, o)
    IN  IF WritesCache(c, e)
        THEN [next |-> "write", text |-> r.text, isError |-> r.isError,
              calls |-> << FetchEnd(k) >> \o entry
                          \o << SetStart(k, r.text, FALSE) >>,
              output |-> << >>]
        ELSE [next |-> "done", text |-> r.text, isError |-> r.isError,
              calls |-> << FetchEnd(k) >> \o entry,
              output |-> << [isError |-> r.isError, text |-> r.text] >>]

\* AfterFetch that writes under the default language whatever was asked.
AfterFetchDefaultKey(c, e, k, o) ==
    LET r == Classified(o)
        entry == LogFailure(c, e, k.id, o)
    IN  IF WritesCache(c, e)
        THEN [next |-> "write", text |-> r.text, isError |-> r.isError,
              calls |-> << FetchEnd(k) >> \o entry
                          \o << SetStart([id |-> k.id, lang |-> "en"], r.text, r.isError) >>,
              output |-> << >>]
        ELSE [next |-> "done", text |-> r.text, isError |-> r.isError,
              calls |-> << FetchEnd(k) >> \o entry,
              output |-> << [isError |-> r.isError, text |-> r.text] >>]

\* After the fetch gave o: classification, the detailed failure entry, and
\* either the start of the cache write or the terminal output.
AfterFetch(c, e, k, o) ==
    LET r == Classified(o)
        entry == LogFailure(c, e, k.id, o)
    IN  IF WritesCache(c, e)
        THEN [next |-> "write", text |-> r.text, isError |-> r.isError,
              calls |-> << FetchEnd(k) >> \o entry
                          \o << SetStart(k, r.text, r.isError) >>,
              output |-> << >>]
        ELSE [next |-> "done", text |-> r.text, isError |-> r.isError,
              calls |-> << FetchEnd(k) >> \o entry,
              output |-> << [isError |-> r.isError, text |-> r.text] >>]

\* AfterWrite with a failed cache write surfacing to the caller.
AfterWriteSurfaces(text, isError, ok) ==
    IF ok
    THEN << [isError |-> isError, text |-> text] >>
    ELSE << Failed(<< "cache write fault" >>) >>

\* After the cache write settled, with ok or with a fault that is only logged:
\* the terminal output.
AfterWrite(text, isError, ok) == << [isError |-> isError, text |-> text] >>

\* Resumes with the counter operations awaited as well.
ResumesAfterCounters(at, position, detached) ==
    /\ position = at
    /\ \A t \in TaskKinds : detached[t] = 0

\* An invocation suspended at an await resumes when that call settles.
Resumes(at, position, detached) == position = at

\* ------------------------------------------------------------------ actions

\* A request arrives and runs up to its first await.
Start(p) ==
    /\ pc[p] = "idle"
    /\ requests < MaxRequests
    /\ \A q \in Invocations : q < p => pc[q] # "idle"
    /\ \E u \in Urls, l \in LanguageInputs :
        LET b == Begin(conv, env, u, l)
        IN  /\ url' = [url EXCEPT ![p] = u]
            /\ language' = [language EXCEPT ![p] = b.lang]
            /\ videoId' = [videoId EXCEPT ![p] = b.id]
            /\ pc' = [pc EXCEPT ![p] = b.next]
            /\ log' = [log EXCEPT ![p] = b.calls]
            /\ outputs' = [outputs EXCEPT ![p] = b.output]
            /\ pending' = [t \in TaskKinds |-> pending[t] + Spawned(b.calls, t)]
    /\ requests' = requests + 1
    /\ UNCHANGED << env, conv, cache, counted, faulted, cachedData, fetched,
                    transcriptText, fetchError >>

\* The lookup settles; on a hit the invocation ends, otherwise the fetch starts.
CacheReadReturn(p) ==
    /\ Resumes("lookup", pc[p], pending)
    /\ \E r \in Lookup(storePresent, cache, Key(p)) :
        LET a == AfterLookup(conv, r)
        IN  /\ cachedData' = [cachedData EXCEPT ![p] = r]
            /\ pc' = [pc EXCEPT ![p] = a.next]
            /\ IF a.next = "done"
               THEN /\ outputs' = [outputs EXCEPT ![p] = Append(@, a.output)]
                    /\ log' = [log EXCEPT ![p] = Append(@, GetEnd(Key(p)))]
               ELSE /\ outputs' = outputs
                    /\ log' = [log EXCEPT ![p] =
                                 @ \o << GetEnd(Key(p)), FetchStart(Key(p)) >>]
    /\ UNCHANGED << env, conv, stores, requests, url, language, videoId,
                    fetched, transcriptText, fetchError >>

\* The fetch settles with text or a fault.
FetchReturn(p) ==
    /\ Resumes("fetch", pc[p], pending)
    /\ \E o \in FetchOutcomes :
        LET a == AfterFetch(conv, env, Key(p), o)
        IN  /\ fetched' = [fetched EXCEPT ![p] = o]
            /\ transcriptText' = [transcriptText EXCEPT ![p] = a.text]
            /\ fetchError' = [fetchError EXCEPT ![p] = a.isError]
            /\ pending' = [t \in TaskKinds |-> pending[t] + Spawned(a.calls, t)]
            /\ pc' = [pc EXCEPT ![p] = a.next]
            /\ outputs' = [outputs EXCEPT ![p] = @ \o a.output]
            /\ log' = [log EXCEPT ![p] = @ \o a.calls]
    /\ UNCHANGED << env, conv, cache, counted, faulted, requests, url,
                    language, videoId, cachedData >>

\* The cache write an invocation is suspended on: the last call it made.
WriteCall(p) == log[p][Len(log[p])]

\* The cache write settles: it took effect, or it faulted and is swallowed.
CacheWriteReturn(p) ==
    /\ Resumes("write", pc[p], pending)
    /\ \E ok \in WriteOutcomes(storePresent) :
        /\ cache' = IF ok
                    THEN setCachedTranscript(cache, WriteCall(p).key, WriteCall(p).text,
                                             WriteCall(p).isError)
                    ELSE cache
        /\ outputs' = [outputs EXCEPT ![p] =
                         @ \o AfterWrite(transcriptText[p], fetchError[p], ok)]
        /\ log' = [log EXCEPT ![p] = Append(@, SetEnd(Key(p)))]
    /\ pc' = [pc EXCEPT ![p] = "done"]
    /\ UNCHANGED << env, conv, pending, counted, faulted, requests, locals >>

\* A detached counter operation takes effect in the counter store.
CounterCompletes(t) ==
    /\ pending[t] > 0
    /\ pending' = [pending EXCEPT ![t] = @ - 1]
    /\ counted' = [counted EXCEPT ![t] = @ + 1]
    /\ UNCHANGED << env, conv, cache, faulted, requests, pc, locals, outputs, log >>

\* CounterFault with the fault surfacing in the invocations still running.
CounterFaultSurfaces(position, produced) ==
    [pc |-> [p \in Invocations |->
                IF position[p] \in {"lookup", "fetch", "write"} THEN "done" ELSE position[p]],
     outputs |-> [p \in Invocations |->
                IF position[p] \in {"lookup", "fetch", "write"}
                THEN Append(produced[p], Failed(<< "counter store fault" >>))
                ELSE produced[p]]]

\* What a failed counter operation does to the invocations: its catch handler
\* only logs the fault.
CounterFault(position, produced) == [pc |-> position, outputs |-> produced]

\* A detached counter operation fails.
CounterFails(t) ==
    /\ pending[t] > 0
    /\ pending' = [pending EXCEPT ![t] = @ - 1]
    /\ faulted' = [faulted EXCEPT ![t] = @ + 1]
    /\ pc' = CounterFault(pc, outputs).pc
    /\ outputs' = CounterFault(pc, outputs).outputs
    /\ UNCHANGED << env, conv, cache, counted, requests, locals, log >>

\* The retention of a stored outcome runs out.
Expire(k) ==
    /\ cache[k] # Absent
    /\ cache' = [cache EXCEPT ![k] = Absent]
    /\ UNCHANGED << env, conv, pending, counted, faulted, requests, pc, locals,
                    outputs, log >>

\* A finished invocation leaves; nothing of it is retained across calls.
Retire(p) ==
    /\ pc[p] = "done"
    /\ pc' = [pc EXCEPT ![p] = "idle"]
    /\ url' = [url EXCEPT ![p] = NoUrl]
    /\ language' = [language EXCEPT ![p] = "en"]
    /\ videoId' = [videoId EXCEPT ![p] = ""]
    /\ cachedData' = [cachedData EXCEPT ![p] = None]
    /\ fetched' = [fetched EXCEPT ![p] = None]
    /\ transcriptText' = [transcriptText EXCEPT ![p] = << >>]
    /\ fetchError' = [fetchError EXCEPT ![p] = FALSE]
    /\ outputs' = [outputs EXCEPT ![p] = << >>]
    /\ log' = [log EXCEPT ![p] = << >>]
    /\ UNCHANGED << env, conv, stores, requests >>

\* The pipeline under concurrent requests. The detached counter operations are
\* started here and settle in TrackedSpec, whose steps leave the pipeline alone.
Next ==
    \/ \E p \in Invocations : Start(p)
    \/ \E p \in Invocations : CacheReadReturn(p)
    \/ \E p \in Invocations : FetchReturn(p)
    \/ \E p \in Invocations : CacheWriteReturn(p)
    \/ \E p \in Invocations : Retire(p)
    \/ \E k \in Keys : Expire(k)

Spec == Init /\ [][Next]_vars

\* One request at a time, together with the settling of the detached counter
\* operations it started.
TrackedStart == requests < MaxTracked /\ Start(1)

TrackedNext ==
    \/ TrackedStart
    \/ CacheReadReturn(1)
    \/ FetchReturn(1)
    \/ CacheWriteReturn(1)
    \/ Retire(1)
    \/ \E k \in Keys : Expire(k)
    \/ \E t \in TaskKinds : CounterCompletes(t)
    \/ \E t \in TaskKinds : CounterFails(t)

\* Every awaited collaborator call settles; nothing is assumed of the counters.
Awaited ==
    /\ WF_vars(CacheReadReturn(1))
    /\ WF_vars(FetchReturn(1))
    /\ WF_vars(CacheWriteReturn(1))

TrackedSpec == Init /\ [][TrackedNext]_vars /\ Awaited

\* ------------------------------------- the two conventions on the same inputs

\* Slot 1 is a call of getTranscriptHandler and slot 2 a call of getTranscript,
\* for the same request, on the same store, with the same collaborator results:
\* the environment carries both bindings, or neither.
PairConv(p) == IF p = 1 THEN "handler" ELSE "throwing"

\* What the store can hold for a key: a transcript stored as a success or a
\* classified message stored as an error.
StoredEntries ==
    { [kind |-> "entry", text |-> t, isError |-> FALSE] : t \in Transcripts }
        \cup { [kind |-> "entry", text |-> handleYouTubeErrors(f), isError |-> TRUE] :
                 f \in Faults }

PairInit ==
    /\ env \in {{}, Bindings}
    /\ conv = "handler"
    /\ cache \in [Keys -> {Absent} \cup StoredEntries]
    /\ ~storePresent => cache = [k \in Keys |-> Absent]
    /\ pending = [t \in TaskKinds |-> 0]
    /\ counted = [t \in TaskKinds |-> 0]
    /\ faulted = [t \in TaskKinds |-> 0]
    /\ requests = 0
    /\ pc = [p \in Invocations |-> "idle"]
    /\ url = [p \in Invocations |-> NoUrl]
    /\ language = [p \in Invocations |-> "en"]
    /\ videoId = [p \in Invocations |-> ""]
    /\ cachedData = [p \in Invocations |-> None]
    /\ fetched = [p \in Invocations |-> None]
    /\ transcriptText = [p \in Invocations |-> << >>]
    /\ fetchError = [p \in Invocations |-> FALSE]
    /\ outputs = [p \in Invocations |-> << >>]
    /\ log = [p \in Invocations |-> << >>]

\* Both functions are called with the same url and language.
PairStart ==
    /\ requests = 0
    /\ \A p \in Invocations : pc[p] = "idle"
    /\ \E u \in Urls, l \in LanguageInputs :
        LET b(p) == Begin(PairConv(p), env, u, l)
        IN  /\ url' = [p \in Invocations |-> u]
            /\ language' = [p \in Invocations |-> b(p).lang]
            /\ videoId' = [p \in Invocations |-> b(p).id]
            /\ pc' = [p \in Invocations |-> b(p).next]
            /\ log' = [p \in Invocations |-> b(p).calls]
            /\ outputs' = [p \in Invocations |-> b(p).output]
            /\ pending' = [t \in TaskKinds |->
                             Spawned(b(1).calls, t) + Spawned(b(2).calls, t)]
    /\ requests' = Cardinality(Invocations)
    /\ UNCHANGED << env, conv, cache, counted, faulted, cachedData, fetched,
                    transcriptText, fetchError >>

\* The lookup gives both the same result.
PairLookup ==
    /\ \A p \in Invocations : pc[p] = "lookup"
    /\ \E r \in Lookup(storePresent, cache, Key(1)) :
        LET a(p) == AfterLookup(PairConv(p), r)
        IN  /\ cachedData' = [p \in Invocations |-> r]
            /\ pc' = [p \in Invocations |-> a(p).next]
            /\ outputs' = [p \in Invocations |->
                             IF a(p).next = "done"
                             THEN Append(outputs[p], a(p).output)
                             ELSE outputs[p]]
            /\ log' = [p \in Invocations |->
                         IF a(p).next = "done"
                         THEN Append(log[p], GetEnd(Key(p)))
                         ELSE log[p] \o << GetEnd(Key(p)), FetchStart(Key(p)) >>]
    /\ UNCHANGED << env, conv, stores, requests, url, language, videoId,
                    fetched, transcriptText, fetchError >>

\* The fetch gives the same outcome to whichever of the two called it.
PairFetch ==
    /\ \E p \in Invocations : pc[p] = "fetch"
    /\ \E o \in FetchOutcomes :
        LET a(p) == AfterFetch(PairConv(p), env, Key(p), o)
            at(p) == pc[p] = "fetch"
        IN  /\ fetched' = [p \in Invocations |-> IF at(p) THEN o ELSE fetched[p]]
            /\ transcriptText' = [p \in Invocations |->
                                    IF at(p) THEN a(p).text ELSE transcriptText[p]]
            /\ fetchError' = [p \in Invocations |->
                                IF at(p) THEN a(p).isError ELSE fetchError[p]]
            /\ pending' = [t \in TaskKinds |->
                             pending[t]
                               + (IF at(1) THEN Spawned(a(1).calls, t) ELSE 0)
                               + (IF at(2) THEN Spawned(a(2).calls, t) ELSE 0)]
            /\ pc' = [p \in Invocations |-> IF at(p) THEN a(p).next ELSE pc[p]]
            /\ outputs' = [p \in Invocations |->
                             IF at(p) THEN outputs[p] \o a(p).output ELSE outputs[p]]
            /\ log' = [p \in Invocations |->
                         IF at(p) THEN log[p] \o a(p).calls ELSE log[p]]
    /\ UNCHANGED << env, conv, cache, counted, faulted, requests, url,
                    language, videoId, cachedData >>

\* The cache write succeeds for both or faults for both; each writes to its
\* own copy of the store, so cache keeps the contents both started from.
PairWrite ==
    /\ \E p \in Invocations : pc[p] = "write"
    /\ \A p \in Invocations : pc[p] # "fetch"
    /\ \E ok \in WriteOutcomes(storePresent) :
        LET at(p) == pc[p] = "write"
        IN  /\ outputs' = [p \in Invocations |->
                             IF at(p)
                             THEN outputs[p]
                                    \o AfterWrite(transcriptText[p], fetchError[p], ok)
                             ELSE outputs[p]]
            /\ log' = [p \in Invocations |->
                         IF at(p)
                         THEN Append(log[p], SetEndWith(WriteCall(p).key, ok))
                         ELSE log[p]]
            /\ pc' = [p \in Invocations |-> IF at(p) THEN "done" ELSE pc[p]]
    /\ UNCHANGED << env, conv, stores, requests, locals >>

PairNext == PairStart \/ PairLookup \/ PairFetch \/ PairWrite

PairSpec == PairInit /\ [][PairNext]_vars

\* The store contents invocation p leaves behind.
Left(p) ==
    IF /\ Len(log[p]) > 1
       /\ log[p][Len(log[p])].op = "set.end"
       /\ log[p][Len(log[p])].ok
    THEN setCachedTranscript(cache, log[p][Len(log[p]) - 1].key,
                             log[p][Len(log[p]) - 1].text,
                             log[p][Len(log[p]) - 1].isError)
    ELSE cache

\* ------------------------------------------------------------------ claims

InFlight == {"lookup", "fetch", "write"}
HasCall(p, op) == \E i \in DOMAIN log[p] : log[p][i].op = op
ReadValue(p) == cachedData[p].kind = "value"
InvalidInput(u) == ~isValidYouTubeUrl(u) \/ extractVideoId(normalizeYouTubeUrl(u)) = ""
InvalidInputMessages == {InvalidUrlMessage(conv), NoVideoIdMessage(conv)}

\* The registry of error-signal phrases: the generic marker as a prefix, the
\* four category phrases anywhere in the text.
MatchesErrorSignal(t) ==
    \/ StartsWith(t, ErrorMarker)
    \/ Includes(t, NoTranscriptAvailable)
    \/ Includes(t, ServiceTemporarilyBusy)
    \/ Includes(t, VideoNotFoundOrPrivate)
    \/ Includes(t, TranscriptsAreDisabled)

\* C1: an invocation whose lookup gave a string matching a known error-signal
\* phrase ends as a failure carrying exactly that string, and never starts the
\* fetch.
C1_CachedErrorReported ==
    \A p \in Invocations :
        (ReadValue(p) /\ MatchesErrorSignal(cachedData[p].text))
            => /\ pc[p] = "done"
               /\ outputs[p] = << Failed(cachedData[p].text) >>
               /\ ~HasCall(p, "fetch.start")

\* C2: with a valid URL the only failures that reach the caller are a stored
\* outcome read back or the classified message of the invocation's own failed
\* fetch; a lookup fault, whatever its message, is followed by the fetch.
C2_StoreFaultsAbsorbed ==
    \A p \in Invocations :
        /\ (pc[p] = "done" /\ ~InvalidInput(url[p]) /\ outputs[p] # << >>
              /\ outputs[p][1].isError)
            => \/ /\ fetched[p].kind = "fault"
                  /\ outputs[p][1].text = handleYouTubeErrors(fetched[p].fault)
               \/ /\ ReadValue(p)
                  /\ outputs[p][1].text = cachedData[p].text
        /\ (cachedData[p].kind = "fault") => HasCall(p, "fetch.start")

\* C3: an invocation whose lookup gave an entry stored after a successful fetch
\* (stored, not expired) returns that text as a success and never starts the
\* fetch, whatever the text.
C3_StoredSuccessHits ==
    \A p \in Invocations :
        (ReadValue(p) /\ ~cachedData[p].isError)
            => /\ pc[p] = "done"
               /\ outputs[p] = << Returned(cachedData[p].text) >>
               /\ ~HasCall(p, "fetch.start")

\* C4: an invocation whose lookup gave an entry stored after a failed fetch (a
\* classified error message) ends with the error flag the fetching request had:
\* a failure carrying that message.
C4_StoredErrorReadsAsError ==
    \A p \in Invocations :
        (ReadValue(p) /\ cachedData[p].isError)
            => /\ pc[p] = "done"
               /\ outputs[p] # << >>
               /\ outputs[p][1].isError

ReadsAsError(t) == IF conv = "handler" THEN isLikelyError(t) ELSE isCachedError(t)

\* C5: a request whose URL is structurally invalid, or whose identifier
\* extraction yields empty, ends at once with an InvalidInput failure, having
\* started no lookup, fetch, write or counter operation, and the step that
\* handles it leaves the result store and the counters unchanged.
C5_InvalidInputTouchesNothing ==
    /\ [](\A p \in Invocations :
            (pc[p] # "idle" /\ InvalidInput(url[p]))
                => /\ pc[p] = "done"
                   /\ outputs[p] \in { << Failed(m) >> : m \in InvalidInputMessages }
                   /\ log[p] = << >>)
    /\ [][\A p \in Invocations :
            (pc[p] = "idle" /\ pc'[p] # "idle" /\ InvalidInput(url'[p]))
                => UNCHANGED stores]_vars

C5_Witness ==
    \E p, q \in Invocations :
        /\ pc[p] = "done" /\ ~isValidYouTubeUrl(url[p])
        /\ pc[q] = "done" /\ isValidYouTubeUrl(url[q]) /\ InvalidInput(url[q])
        /\ env = Bindings

\* C6: an invocation whose lookup gave a non-empty string that reads as a
\* success returns exactly that string as a success, and its calls are the
\* usage counters and the lookup only: no fetch, no cache write, no detailed
\* failure entry.
C6_SuccessHitReturnsAtOnce ==
    \A p \in Invocations :
        (ReadValue(p) /\ Truthy(cachedData[p].text) /\ ~ReadsAsError(cachedData[p].text))
            => /\ pc[p] = "done"
               /\ outputs[p] = << Returned(cachedData[p].text) >>
               /\ log[p] = TrackUsage(conv, env, videoId[p])
                             \o << GetStart(Key(p)), GetEnd(Key(p)) >>

C6_Witness ==
    \E p \in Invocations :
        /\ pc[p] = "done"
        /\ ReadValue(p)
        /\ cachedData[p].text = << "Hello world." >>
        /\ outputs[p] = << Returned(<< "Hello world." >>) >>

\* C7: after a miss and a failed fetch, the text held, the text passed to the
\* cache write and the text of the terminal output are all the classifier's
\* message for that fault; no raw fault message is ever stored or output.
C7_ClassifiedNotRaw ==
    /\ \A p \in Invocations :
        fetched[p].kind = "fault"
            => /\ transcriptText[p] = handleYouTubeErrors(fetched[p].fault)
               /\ \A i \in DOMAIN log[p] :
                    log[p][i].op = "set.start"
                        => /\ log[p][i].text = handleYouTubeErrors(fetched[p].fault)
                           /\ log[p][i].isError
               /\ pc[p] = "done"
                    => outputs[p] = << Failed(handleYouTubeErrors(fetched[p].fault)) >>
    /\ \A k \in Keys, f \in Faults :
        cache[k] # Absent => cache[k].text # f.message
    /\ \A p \in Invocations, f \in Faults :
        \A i \in DOMAIN outputs[p] : outputs[p][i].text # f.message

C7_Witness ==
    \E p \in Invocations :
        /\ pc[p] = "done"
        /\ fetched[p].kind = "fault"
        /\ cache[Key(p)] # Absent
        /\ cache[Key(p)].text = handleYouTubeErrors(fetched[p].fault)
        /\ cache[Key(p)].isError
        /\ outputs[p] = << Failed(cache[Key(p)].text) >>

\* C8: the settling of a counter operation, by success or by fault, changes
\* neither the result store nor any invocation's position, locals or output;
\* and the output after a fetch is the fetch's text or classified message
\* whatever the counters did.
C8_CountersDoNotInfluence ==
    /\ [][(counted' # counted \/ faulted' # faulted)
            => UNCHANGED << cache, pc, outputs, locals >>]_vars
    /\ [](\A p \in Invocations :
            (pc[p] = "done" /\ fetched[p] # None)
                => outputs[p] =
                     << IF fetched[p].kind = "text"
                        THEN Returned(fetched[p].text)
                        ELSE Failed(handleYouTubeErrors(fetched[p].fault)) >>)

C8_Witness ==
    /\ pc[1] = "done"
    /\ faulted["daily"] > 0
    /\ faulted["video"] > 0
    /\ faulted["analytics"] > 0
    /\ counted = [t \in TaskKinds |-> 0]
    /\ fetched[1].kind = "fault"
    /\ outputs[1] = << Failed(handleYouTubeErrors(fetched[1].fault)) >>

\* C9: when every awaited call settles, an invocation that has started
\* eventually ends, whether or not its counter operations ever settle; an ended
\* invocation has produced exactly one output and a running one none.
C9_ExactlyOneOutput ==
    /\ (pc[1] \in InFlight) ~> (pc[1] = "done")
    /\ [](\A p \in Invocations :
            /\ Len(outputs[p]) <= 1
            /\ pc[p] = "done" <=> Len(outputs[p]) = 1)

C9_Witness ==
    /\ pc[1] = "done"
    /\ Len(outputs[1]) = 1
    /\ HasCall(1, "set.end")
    /\ pending["daily"] > 0
    /\ pending["video"] > 0

\* C10: in an invocation's calls the lookup has completed before the fetch
\* starts and the fetch has completed before the cache write starts; a stored
\* entry appears only by the write of an invocation whose fetch has completed.
C10_AwaitedInOrder ==
    /\ [](\A p \in Invocations : \A i \in DOMAIN log[p] :
            /\ log[p][i].op = "fetch.start"
                => \E j \in 1..(i - 1) : log[p][j].op = "get.end"
            /\ log[p][i].op = "get.end"
                => \E j \in 1..(i - 1) : log[p][j].op = "get.start"
            /\ log[p][i].op = "set.start"
                => \E j \in 1..(i - 1) : log[p][j].op = "fetch.end"
            /\ log[p][i].op = "fetch.end"
                => \E j \in 1..(i - 1) : log[p][j].op = "fetch.start")
    /\ [][\A k \in Keys :
            (cache'[k] # cache[k] /\ cache'[k] # Absent)
                => \E p \in Invocations :
                     /\ Key(p) = k
                     /\ pc[p] = "write"
                     /\ HasCall(p, "fetch.end")]_vars

C10_Witness ==
    \E p \in Invocations :
        /\ pc[p] = "done"
        /\ cachedData[p].kind = "fault"
        /\ HasCall(p, "set.end")
        /\ cache[Key(p)] # Absent

\* How many calls of operation op invocation p has made.
Calls(p, op) == Cardinality({ i \in DOMAIN log[p] : log[p][i].op = op })

\* What invocation p's own fetch outcome reads as for the caller.
OwnOutcome(p) ==
    IF fetched[p].kind = "text"
    THEN Returned(fetched[p].text)
    ELSE Failed(handleYouTubeErrors(fetched[p].fault))

\* The key a request is for, from its inputs.
RequestKey(p) ==
    [id |-> extractVideoId(normalizeYouTubeUrl(url[p])), lang |-> language[p]]

Valid(p) == pc[p] # "idle" /\ ~InvalidInput(url[p])

\* C11: concurrent requests for one key are not coalesced: an invocation whose
\* lookup found nothing has started a fetch of its own, whatever the other
\* invocation is doing, and what it returns is the outcome of its own fetch.
C11_EachReturnsOwnFetch ==
    \A p \in Invocations : \A q \in Invocations \ {p} :
        (Valid(p) /\ Valid(q) /\ RequestKey(p) = RequestKey(q))
            => /\ cachedData[p] = Absent => Calls(p, "fetch.start") = 1
               /\ (pc[p] = "done" /\ fetched[p] # None)
                    => outputs[p] = << OwnOutcome(p) >>

C11_Witness ==
    /\ RequestKey(1) = RequestKey(2)
    /\ pc[1] = "done" /\ pc[2] = "done"
    /\ cachedData[1] = Absent /\ cachedData[2] = Absent
    /\ fetched[1].kind = "text" /\ fetched[2].kind = "fault"
    /\ cache[RequestKey(1)] # Absent
    /\ outputs[1] = << OwnOutcome(1) >>
    /\ outputs[2] = << OwnOutcome(2) >>

\* C12: with the store present a valid request starts the daily increment and
\* the increment for its video id exactly once each, before the lookup, on a
\* hit and on a miss alike; with the store absent it starts neither.
C12_CountersStartedOnce ==
    \A p \in Invocations :
        Valid(p) =>
            IF storePresent
            THEN /\ Len(log[p]) >= 3
                 /\ log[p][1] = TrackDaily
                 /\ log[p][2] = IncrementVideo(RequestKey(p).id)
                 /\ log[p][3].op = "get.start"
                 /\ Calls(p, "trackDailyRequests") = 1
                 /\ Calls(p, "incrementVideoRequestCount") = 1
            ELSE /\ Calls(p, "trackDailyRequests") = 0
                 /\ Calls(p, "incrementVideoRequestCount") = 0
                 /\ log[p][1].op = "get.start"

C12_Witness ==
    /\ storePresent
    /\ \E p \in Invocations : \E q \in Invocations \ {p} :
        /\ pc[p] = "done" /\ pc[q] = "done"
        /\ ReadValue(p) /\ ~HasCall(p, "fetch.start")
        /\ cachedData[q] = Absent /\ HasCall(q, "fetch.end")
        /\ Calls(p, "trackDailyRequests") = 1
        /\ Calls(q, "incrementVideoRequestCount") = 1
        /\ pending["daily"] = 2

\* C13: the detailed failure entry is logged at most once in an invocation,
\* only when its fetch failed, and never in an invocation whose lookup gave
\* back a stored value.
C13_FailureEntryOnlyAfterMiss ==
    \A p \in Invocations :
        /\ Calls(p, "logAnalyticsError") <= 1
        /\ HasCall(p, "logAnalyticsError")
            => (fetched[p] # None /\ fetched[p].kind = "fault")
        /\ ReadValue(p) => ~HasCall(p, "logAnalyticsError")

\* C14: with the store absent a valid request is a miss, the fetch
\* is invoked and its outcome returned, and neither a cache write nor a
\* counter operation is attempted.
C14_StoreAbsentAttemptsNothing ==
    ~storePresent =>
        \A p \in Invocations :
            Valid(p) =>
                /\ pc[p] = "done"
                    => (Calls(p, "fetch.start") = 1 /\ outputs[p] = << OwnOutcome(p) >>)
                /\ ~HasCall(p, "set.start")
                /\ ~HasCall(p, "trackDailyRequests")
                /\ ~HasCall(p, "incrementVideoRequestCount")
                /\ ~HasCall(p, "logAnalyticsError")

\* C15: a fault of the cache write is swallowed: once the write has settled,
\* failed or not, the invocation has returned the text and flag of its fetch
\* outcome, for a successful fetch and for a failed one.
C15_WriteFaultSwallowed ==
    \A p \in Invocations : \A i \in DOMAIN log[p] :
        log[p][i].op = "set.end"
            => /\ pc[p] = "done"
               /\ outputs[p] = << [isError |-> fetchError[p], text |-> transcriptText[p]] >>
               /\ outputs[p] = << OwnOutcome(p) >>

C15_Witness ==
    \E p \in Invocations : \E q \in Invocations \ {p} :
        /\ conv = "handler"
        /\ ~storePresent
        /\ HasCall(p, "set.end") /\ HasCall(q, "set.end")
        /\ cache = [k \in Keys |-> Absent]
        /\ fetched[p].kind = "fault" /\ fetched[q].kind = "text"
        /\ outputs[p] = << Failed(handleYouTubeErrors(fetched[p].fault)) >>
        /\ outputs[q] = << Returned(fetched[q].text) >>

\* C16: an invocation starts at most one fetch, whatever faults the lookup,
\* the fetch or the cache write raise.
C16_AtMostOneFetch ==
    \A p \in Invocations :
        /\ Calls(p, "fetch.start") <= 1
        /\ Calls(p, "fetch.end") <= Calls(p, "fetch.start")

C16_Witness ==
    \E p \in Invocations :
        /\ pc[p] = "done"
        /\ cachedData[p].kind = "fault"
        /\ fetched[p].kind = "fault"
        /\ ~storePresent
        /\ HasCall(p, "set.end")
        /\ Calls(p, "fetch.start") = 1

\* C17: with the store present, an invocation that went on to the fetch issues
\* the cache write exactly once, under the (id, lang) key of its lookup and of
\* its fetch with lang 'en' when none was given, with the text of the fetch
\* outcome and with the error marker exactly when the fetch failed.
C17_WriteOncePerMiss ==
    \A p \in Invocations :
        (storePresent /\ pc[p] \in {"write", "done"} /\ fetched[p] # None)
            => /\ Calls(p, "set.start") = 1
               /\ \A i \in DOMAIN log[p] :
                    /\ log[p][i].op = "set.start"
                        => log[p][i] = SetStart(RequestKey(p), OwnOutcome(p).text,
                                                fetched[p].kind = "fault")
                    /\ log[p][i].op \in {"get.start", "fetch.start"}
                        => log[p][i].key = RequestKey(p)

C17_Witness ==
    \E p \in Invocations : \E q \in Invocations \ {p} :
        /\ storePresent
        /\ pc[p] = "done" /\ pc[q] = "done"
        /\ language[p] = "en" /\ language[q] = "es"
        /\ fetched[p].kind = "text" /\ fetched[q].kind = "fault"
        /\ cache[Key(p)] = [kind |-> "entry", text |-> fetched[p].text, isError |-> FALSE]
        /\ cache[Key(q)] = [kind |-> "entry",
                            text |-> handleYouTubeErrors(fetched[q].fault),
                            isError |-> TRUE]

\* C19: a stored entry is the text of a successful fetch or the classified
\* message of a failed fetch, and it is put under a key only by the write of an
\* invocation whose own request was for that key and whose own fetch gave that
\* outcome; the entry is what the last successful write left, so an error can
\* replace a transcript stored earlier.
C19_StoredIsLastWritersOutcome ==
    /\ [](\A k \in Keys :
            cache[k] # Absent
                => IF cache[k].isError
                   THEN \E f \in Faults : cache[k].text = handleYouTubeErrors(f)
                   ELSE cache[k].text \in Transcripts)
    /\ [][\A k \in Keys :
            (cache'[k] # cache[k] /\ cache'[k] # Absent)
                => \E p \in Invocations :
                     /\ RequestKey(p) = k
                     /\ pc[p] = "write" /\ pc'[p] = "done"
                     /\ fetched[p] # None
                     /\ cache'[k] = [kind |-> "entry", text |-> OwnOutcome(p).text,
                                     isError |-> fetched[p].kind = "fault"]]_vars

C19_Witness ==
    \E p \in Invocations : \E q \in Invocations \ {p} :
        /\ RequestKey(p) = RequestKey(q)
        /\ pc[p] = "done" /\ pc[q] = "done"
        /\ fetched[p].kind = "text" /\ fetched[q].kind = "fault"
        /\ log[p][Len(log[p])] = SetEnd(Key(p))
        /\ log[q][Len(log[q])] = SetEnd(Key(q))
        /\ cache[RequestKey(p)] = [kind |-> "entry",
                                   text |-> handleYouTubeErrors(fetched[q].fault),
                                   isError |-> TRUE]

\* C18: the two conventions agree: on the same request, store contents and
\* collaborator results, getTranscriptHandler returns isError = true exactly
\* when getTranscript throws, both invoke the fetch or neither does, both leave
\* the same store contents, and on success both return the same text.
C18_ConventionsAgree ==
    (pc[1] = "done" /\ pc[2] = "done")
        => /\ outputs[1][1].isError = outputs[2][1].isError
           /\ HasCall(1, "fetch.start") = HasCall(2, "fetch.start")
           /\ Left(1) = Left(2)
           /\ (~outputs[1][1].isError /\ ~outputs[2][1].isError)
                => outputs[1][1].text = outputs[2][1].text

====
